---- MODULE Spec2Model ----
(***************************************************************************)
(* M5Scribe (src/src/main.cpp): microphone capture streamed over a        *)
(* Bluetooth serial link, with a touch-driven connection state machine.    *)
(*                                                                         *)
(* Two tasks share the globals btConnected and needsFullRedraw: the        *)
(* Arduino loop task (setup() then loop() forever) and the Bluetooth task  *)
(* that runs btCallback.  The loop task is modelled with a program         *)
(* counter pc that stops at every access to a shared global and at every   *)
(* delay; the callback is modelled with its own position cb.               *)
(***************************************************************************)
EXTENDS Integers, Sequences, FiniteSets, TLC

(* ---------------------------- bounds ---------------------------------- *)

\* number of loop() iterations explored
MaxTicks == 2

\* bytes in a captured block (the model's stand-in for the 2048 of DATA_SIZE)
MaxBlock == 3

\* zero-byte writes the transport answers in the run explored
MaxZeroWrites == 1

\* extra time an idle wait may take beyond its delay(100), in ms
IdleLag == 59700

\* byte lengths handed to calculateAudioLevel when it is run on its own
MaxLevelBytes == 4

(* ----------------------- program constants ---------------------------- *)

DISCOVERABLE_DURATION == 60000

SAMPLE_RATE == 16000

DATA_SIZE == 2048

\* duration of one full block of 16-bit samples at the capture rate, in ms
BlockTime == ((DATA_SIZE \div 2) * 1000) \div SAMPLE_RATE

(* ------------------------------ state --------------------------------- *)

VARIABLES
    pc,                     \* position of the loop task
    cb,                     \* position of btCallback in the Bluetooth task
    link,                   \* transport: "none", "open", "closing"
    clock,                  \* millis()
    ticks,                  \* loop() iterations begun
    started,                \* setup() has returned
    btConnected,
    btDiscoverable,
    discoverableStartTime,
    needsFullRedraw,
    lastDisplayState,
    currentState,           \* updateDisplay: local currentState
    lastAudioLevel,         \* updateDisplay: static lastAudioLevel
    lastRemainingTime,      \* updateDisplay: static lastRemainingTime
    lastUpdate,             \* updateDisplay: static lastUpdate
    pos,                    \* loop: local pos (touch point)
    lastTouchState,         \* loop: static lastTouchState
    sspEnabled,             \* SerialBT.enableSSP() has been called
    audioLevel,
    lastLevel,              \* calculateAudioLevel: static lastLevel
    lastAudioUpdate,
    bytesRead,              \* loop: local bytesRead
    totalWritten,           \* loop: local totalWritten
    sent,                   \* buffer offsets accepted by the transport for this block
    zeroWrites,             \* zero-byte writes answered so far
    warning,                \* the "Only wrote %d/%d bytes" line of this tick, if any
    pressEvents,            \* button events taken from the current press
    afterStop,              \* a stop press was accepted and no peer attached since
    attached,               \* a peer is or was attached since the last connect press
    cdFresh,                \* no countdown drawn yet since the last connect press
    changed,                \* the state changed since a full redraw last drew it
    boot,                   \* setup: the results of the i2s calls and of SerialBT.begin
    idleClose               \* btCallback is handling a close event delivered while Idle

vars == << pc, cb, link, clock, ticks, started, btConnected, btDiscoverable,
           discoverableStartTime, needsFullRedraw, lastDisplayState,
           currentState, lastAudioLevel, lastRemainingTime, lastUpdate, pos,
           lastTouchState, sspEnabled, audioLevel, lastLevel, lastAudioUpdate,
           bytesRead, totalWritten, sent, zeroWrites, warning, pressEvents,
           afterStop, attached, cdFresh, changed, boot, idleClose >>

(* ----------------------------- helpers -------------------------------- *)

\* unsigned long is 32 bits wide on the ESP32.  2^32 itself is written as
\* Half * Half and only its quotient and remainder by d are ever computed.
Half == 2^16
ULongQuot(d) == Half * (Half \div d) + (Half * (Half % d)) \div d
ULongRem(d) == (Half * (Half % d)) % d

\* millis() - then: the clock stays below its wrap in the runs explored, so
\* the unsigned difference is the plain one
Elapsed(now, then) == now - then

\* (a - b) / d in unsigned long arithmetic, for b a time difference: a
\* negative difference wraps to 2^32 + (a - b) before the division
U32SubDiv(a, b, d) ==
    IF a - b >= 0 THEN (a - b) \div d
    ELSE ULongQuot(d) + (ULongRem(d) + (a - b)) \div d

\* C division truncates toward zero
CDiv(a, b) == IF a >= 0 THEN a \div b ELSE -((-a) \div b)

\* Arduino map()
Map(x, inMin, inMax, outMin, outMax) ==
    CDiv((x - inMin) * (outMax - outMin), inMax - inMin) + outMin

\* Arduino constrain()
Constrain(x, lo, hi) == IF x < lo THEN lo ELSE IF x > hi THEN hi ELSE x

Abs(x) == IF x < 0 THEN -x ELSE x

RECURSIVE SumAbs(_)
SumAbs(s) == IF s = << >> THEN 0 ELSE Abs(Head(s)) + SumAbs(Tail(s))

RECURSIVE MaxAbs(_)
MaxAbs(s) ==
    IF s = << >> THEN 0
    ELSE LET m == MaxAbs(Tail(s)) IN IF Abs(Head(s)) > m THEN Abs(Head(s)) ELSE m

\* calculateAudioLevel up to the constrain: the instantaneous level
MappedLevel(samples) ==
    LET avg      == SumAbs(samples) \div Len(samples)
        combined == (avg * 3 + MaxAbs(samples)) \div 4
    IN  Constrain(Map(combined, 100, 2000, 0, 100), 0, 100)

\* a level set directly from the instantaneous value
SmoothSkipped(mapped, previous) == mapped

\* calculateAudioLevel: the smoothing step
Smooth(mapped, previous) == (mapped * 7 + previous * 3) \div 10

\* updateDisplay: currentState (0 idle, 1 discoverable, 2 streaming)
StateOf(conn, disc) == IF conn THEN 2 ELSE IF disc THEN 1 ELSE 0

\* updateDisplay: the countdown value
Remaining(now, start) ==
    U32SubDiv(DISCOVERABLE_DURATION, Elapsed(now, start), 1000)

\* a timeout that already fires when the window has just been used up
TimedOutAtLimit(now, start) == Elapsed(now, start) >= DISCOVERABLE_DURATION

\* loop: the timeout condition
TimedOut(now, start) == Elapsed(now, start) > DISCOVERABLE_DURATION

\* loop: touching
Touching(p) == p[1] > 0 /\ p[2] > 0

\* loop: the CONNECT button region
InConnect(p) == p[1] >= 70 /\ p[1] <= 250 /\ p[2] >= 190 /\ p[2] <= 240

\* loop: the STOP button region
InStop(p) == p[1] >= 195 /\ p[1] <= 305 /\ p[2] >= 185 /\ p[2] <= 230

\* loop: the CONNECT press is accepted
ConnectPress(conn, disc, touching, last, p) ==
    ~conn /\ ~disc /\ touching /\ ~last /\ InConnect(p)

\* a stop handler that does not look at the connection
StopPressAnyState(conn, touching, last, p) == touching /\ ~last /\ InStop(p)

\* loop: the STOP press is accepted
StopPress(conn, touching, last, p) == conn /\ touching /\ ~last /\ InStop(p)

\* a send loop that offers the buffer from its start again
OfferedFromStart(written, n) == [i \in 1..(n - written) |-> i - 1]

\* loop: the bytes offered to SerialBT.write, as offsets into audioBuffer
Offered(written, n) == [i \in 1..(n - written) |-> written + i - 1]

\* a send loop that does not look at the link
SendMoreBlind(written, n, conn) == written < n

\* loop: the send loop continues
SendMore(written, n, conn) == written < n /\ conn

\* an initialisation that keeps only the result of its last call
InitMicrophoneLastOnly(install, setPin, setClk) == setClk = 0

\* InitMicrophone: the results of i2s_driver_install, i2s_set_pin and
\* i2s_set_clk are added up and the sum is compared with ESP_OK
InitMicrophone(install, setPin, setClk) == install + setPin + setClk = 0

(* ------------------------------ inputs -------------------------------- *)

\* esp_err_t: ESP_OK, ESP_FAIL, ESP_ERR_NO_MEM, ESP_ERR_INVALID_ARG
ErrCodes == { 0, -1, 257, 258 }

\* touch points: no contact, CONNECT only, both regions, STOP only, neither
NoTouch == <<-1, -1>>

Points == { NoTouch, <<100, 220>>, <<220, 200>>, <<300, 200>>, <<20, 20>> }

\* 16-bit samples
SampleVals == { 0, -32768 }

Blocks(n) == [1..n -> SampleVals]

\* time a capture read takes: the read blocks until one block is captured
ReadTimes == { BlockTime }

\* an idle wait takes its delay(100), or so long that the connection mode
\* has lasted exactly its duration, or one millisecond longer
IdleLags == { 0, IdleLag, IdleLag + 1 }

(* ------------------------------- Init --------------------------------- *)

Init ==
    /\ pc = "setup"
    /\ cb = "none"
    /\ link = "none"
    /\ clock = 0
    /\ ticks = 0
    /\ started = FALSE
    /\ btConnected = FALSE
    /\ btDiscoverable = FALSE
    /\ discoverableStartTime = 0
    /\ needsFullRedraw = TRUE
    /\ lastDisplayState = -1
    /\ currentState = 0
    /\ lastAudioLevel = -1
    /\ lastRemainingTime = 999
    /\ lastUpdate = 0
    /\ pos = NoTouch
    /\ lastTouchState = FALSE
    /\ sspEnabled = FALSE
    /\ audioLevel = 0
    /\ lastLevel = 0
    /\ lastAudioUpdate = 0
    /\ bytesRead = 0
    /\ totalWritten = 0
    /\ sent = << >>
    /\ zeroWrites = 0
    /\ warning = << >>
    /\ pressEvents = 0
    /\ afterStop = FALSE
    /\ attached = FALSE
    /\ cdFresh = FALSE
    /\ changed = TRUE
    /\ boot = << 0, 0, 0, FALSE >>
    /\ idleClose = FALSE

(* ------------------------------ setup --------------------------------- *)

dispVars == << lastDisplayState, currentState, lastAudioLevel,
               lastRemainingTime, lastUpdate >>
audioVars == << audioLevel, lastLevel, lastAudioUpdate >>
txVars == << bytesRead, totalWritten, sent, zeroWrites, warning >>
touchVars == << pos, lastTouchState, pressEvents >>

\* setup(): both initialisations succeed and the callback is registered, or
\* the error screen is shown and the task spins in while(1)
Setup ==
    /\ pc = "setup"
    /\ \E install \in ErrCodes, setPin \in ErrCodes, setClk \in ErrCodes,
          btOk \in BOOLEAN :
          IF InitMicrophone(install, setPin, setClk)
          THEN /\ boot' = << install, setPin, setClk, btOk >>
               /\ pc' = IF btOk THEN "ud_state" ELSE "halted"
          ELSE /\ boot' = << install, setPin, setClk, FALSE >>
               /\ pc' = "halted"
    /\ clock' = clock + 100
    /\ UNCHANGED << idleClose, changed, cb, link, ticks, started, btConnected, btDiscoverable,
                    discoverableStartTime, needsFullRedraw, sspEnabled,
                    afterStop, attached, cdFresh >>
    /\ UNCHANGED << dispVars, audioVars, txVars, touchVars >>

(* --------------------------- updateDisplay ---------------------------- *)

\* loop(): M5.update(); updateDisplay(): currentState is computed (the
\* log line of the tick before has scrolled away)
UdState ==
    /\ pc = "ud_state"
    /\ started => ticks < MaxTicks
    /\ ticks' = IF started THEN ticks + 1 ELSE ticks
    /\ currentState' = StateOf(btConnected, btDiscoverable)
    /\ warning' = << >>
    /\ pc' = "ud_check"
    /\ UNCHANGED << idleClose, boot, changed, cb, link, clock, started, btConnected, btDiscoverable,
                    discoverableStartTime, needsFullRedraw, lastDisplayState,
                    lastAudioLevel, lastRemainingTime, lastUpdate, sspEnabled,
                    afterStop, attached, cdFresh >>
    /\ UNCHANGED << bytesRead, totalWritten, sent, zeroWrites >>
    /\ UNCHANGED << audioVars, touchVars >>

\* updateDisplay(): the full redraw
UdCheck ==
    /\ pc = "ud_check"
    /\ IF currentState # lastDisplayState \/ needsFullRedraw
       THEN /\ lastDisplayState' = currentState
            /\ needsFullRedraw' = FALSE
            /\ lastAudioLevel' = -1
            /\ lastRemainingTime' = 999
            /\ changed' = (StateOf(btConnected, btDiscoverable) # currentState)
       ELSE UNCHANGED << lastDisplayState, needsFullRedraw, lastAudioLevel,
                         lastRemainingTime, changed >>
    /\ currentState' = 0
    /\ pc' = "ud_draw"
    /\ UNCHANGED << idleClose, boot, cb, link, clock, ticks, started, btConnected,
                    btDiscoverable, discoverableStartTime,
                    lastUpdate, sspEnabled, afterStop, attached, cdFresh >>
    /\ UNCHANGED << audioVars, txVars, touchVars >>

\* updateDisplay(): the partial drawing of the streaming, searching or
\* ready screen; returns to setup() or continues loop()
UdDraw ==
    /\ pc = "ud_draw"
    /\ LET due == Elapsed(clock, lastUpdate) > 50 IN
       IF btConnected
       THEN /\ lastAudioLevel' = IF due THEN audioLevel ELSE lastAudioLevel
            /\ lastUpdate' = IF due THEN clock ELSE lastUpdate
            /\ UNCHANGED << lastRemainingTime, cdFresh >>
       ELSE IF btDiscoverable
       THEN /\ lastAudioLevel' = IF lastAudioLevel = -1 THEN 0 ELSE lastAudioLevel
            /\ lastUpdate' = IF due THEN clock ELSE lastUpdate
            /\ lastRemainingTime' =
                  IF due THEN Remaining(clock, discoverableStartTime)
                  ELSE lastRemainingTime
            /\ cdFresh' =
                  IF due /\ Remaining(clock, discoverableStartTime) # lastRemainingTime
                  THEN FALSE ELSE cdFresh
       ELSE /\ lastAudioLevel' = IF lastAudioLevel = -1 THEN 0 ELSE lastAudioLevel
            /\ UNCHANGED << lastUpdate, lastRemainingTime, cdFresh >>
    /\ started' = TRUE
    /\ pc' = IF started THEN "touch" ELSE "ud_state"
    /\ UNCHANGED << idleClose, boot, changed, cb, link, clock, ticks, btConnected, btDiscoverable,
                    discoverableStartTime, needsFullRedraw, lastDisplayState,
                    currentState, sspEnabled, afterStop, attached >>
    /\ UNCHANGED << audioVars, txVars, touchVars >>

(* ------------------------------- loop --------------------------------- *)

\* loop(): the touch point is read and the CONNECT press is tested; an
\* accepted press draws the pressed button and waits delay(100)
TouchPoll ==
    /\ pc = "touch"
    /\ \E p \in Points :
          LET newPress == Touching(p) /\ ~lastTouchState IN
          /\ pos' = p
          /\ IF ConnectPress(btConnected, btDiscoverable, Touching(p),
                          lastTouchState, p)
             THEN /\ pc' = "connect_do"
                  /\ clock' = clock + 100
                  /\ pressEvents' = 1
             ELSE /\ pc' = "stop_check"
                  /\ clock' = clock
                  /\ pressEvents' = IF newPress \/ ~Touching(p) THEN 0 ELSE pressEvents
    /\ UNCHANGED << idleClose, boot, changed, cb, link, ticks, started, btConnected, btDiscoverable,
                    discoverableStartTime, needsFullRedraw, lastTouchState,
                    sspEnabled, afterStop, attached, cdFresh >>
    /\ UNCHANGED << dispVars, audioVars, txVars >>

\* loop(): the connection mode is enabled, then delay(200)
ConnectDo ==
    /\ pc = "connect_do"
    /\ btDiscoverable' = TRUE
    /\ discoverableStartTime' = clock
    /\ sspEnabled' = TRUE
    /\ needsFullRedraw' = TRUE
    /\ cdFresh' = TRUE
    /\ attached' = btConnected
    /\ changed' = (changed \/ ~btConnected)
    /\ clock' = clock + 200
    /\ pc' = "stop_check"
    /\ UNCHANGED << idleClose, boot, cb, link, ticks, started, btConnected, afterStop >>
    /\ UNCHANGED << dispVars, audioVars, txVars, touchVars >>

\* loop(): the STOP press is tested; an accepted press draws the pressed
\* button and waits delay(100); otherwise lastTouchState is stored
StopCheck ==
    /\ pc = "stop_check"
    /\ IF StopPress(btConnected, Touching(pos), lastTouchState, pos)
       THEN /\ pc' = "stop_do"
            /\ clock' = clock + 100
            /\ pressEvents' = pressEvents + 1
            /\ UNCHANGED lastTouchState
            /\ UNCHANGED pos
       ELSE /\ pc' = "timeout"
            /\ lastTouchState' = Touching(pos)
            /\ pos' = NoTouch
            /\ UNCHANGED << clock, pressEvents >>
    /\ UNCHANGED << idleClose, boot, changed, cb, link, ticks, started, btConnected, btDiscoverable,
                    discoverableStartTime, needsFullRedraw, sspEnabled,
                    afterStop, attached, cdFresh >>
    /\ UNCHANGED << dispVars, audioVars, txVars >>

\* a stop that leaves the link as it is
DisconnectSkipped(l) == l

\* SerialBT.disconnect(): an open link is closed; its close event follows
Disconnect(l) == IF l = "open" THEN "closing" ELSE l

\* loop(): the link is torn down and both flags are cleared, then
\* delay(200) and lastTouchState is stored
StopDo ==
    /\ pc = "stop_do"
    /\ link' = Disconnect(link)
    /\ btConnected' = FALSE
    /\ btDiscoverable' = FALSE
    /\ needsFullRedraw' = TRUE
    /\ afterStop' = TRUE
    /\ changed' = (changed \/ btConnected \/ btDiscoverable)
    /\ clock' = clock + 200
    /\ lastTouchState' = Touching(pos)
    /\ pos' = NoTouch
    /\ pc' = "timeout"
    /\ UNCHANGED << idleClose, boot, cb, ticks, started, discoverableStartTime,
                    pressEvents, sspEnabled, attached, cdFresh >>
    /\ UNCHANGED << dispVars, audioVars, txVars >>

\* loop(): the connection mode times out
Timeout ==
    /\ pc = "timeout"
    /\ IF btDiscoverable /\ ~btConnected
          /\ TimedOut(clock, discoverableStartTime)
       THEN /\ btDiscoverable' = FALSE
            /\ needsFullRedraw' = TRUE
            /\ changed' = TRUE
       ELSE UNCHANGED << btDiscoverable, needsFullRedraw, changed >>
    /\ pc' = "stream"
    /\ UNCHANGED << idleClose, boot, cb, link, clock, ticks, started, btConnected,
                    discoverableStartTime, sspEnabled, afterStop, attached, cdFresh >>
    /\ UNCHANGED << dispVars, audioVars, txVars, touchVars >>

\* a long idle wait is explored where elapsed time is looked at: while the
\* connection mode is on and its window has not run out
LongWait ==
    btDiscoverable /\ Elapsed(clock, discoverableStartTime) < DISCOVERABLE_DURATION

\* loop(): streaming only while connected; otherwise delay(100) ends the tick
StreamCheck ==
    /\ pc = "stream"
    /\ IF btConnected
       THEN pc' = "i2s" /\ clock' = clock
       ELSE /\ pc' = "ud_state"
            /\ \E lag \in IdleLags :
                  /\ lag > 0 => LongWait
                  /\ clock' = clock + 100 + lag
    /\ UNCHANGED << idleClose, boot, changed, cb, link, ticks, started, btConnected, btDiscoverable,
                    discoverableStartTime, needsFullRedraw, sspEnabled,
                    afterStop, attached, cdFresh >>
    /\ UNCHANGED << dispVars, audioVars, txVars, touchVars >>

\* loop(): i2s_read(..., portMAX_DELAY) returns: with no timeout it has
\* filled the whole buffer, or it failed and read nothing.  On ESP_OK with
\* data the level is analysed (at most every 50 ms) and the send loop starts.
\* A block shorter than one sample makes calculateAudioLevel divide by zero.
I2sRead ==
    /\ pc = "i2s"
    /\ \E ok \in BOOLEAN, rt \in ReadTimes :
          LET n == IF ok THEN MaxBlock ELSE 0 IN
          LET now == clock + rt
              due == Elapsed(now, lastAudioUpdate) > 50
          IN
          /\ clock' = now
          /\ IF ok /\ n > 0
             THEN /\ bytesRead' = n
                  /\ totalWritten' = 0
                  /\ sent' = << >>
                  /\ warning' = << >>
                  /\ UNCHANGED zeroWrites
                  /\ IF ~due
                     THEN pc' = "tx" /\ UNCHANGED audioVars
                     ELSE IF n \div 2 = 0
                     THEN pc' = "panic" /\ UNCHANGED audioVars
                     ELSE /\ pc' = "tx"
                          /\ \E samples \in Blocks(n \div 2) :
                                /\ audioLevel' = Smooth(MappedLevel(samples), lastLevel)
                                /\ lastLevel' = audioLevel'
                          /\ lastAudioUpdate' = now
             ELSE /\ pc' = "ud_state"
                  /\ UNCHANGED << audioVars, txVars >>
    /\ UNCHANGED << idleClose, boot, changed, cb, link, ticks, started, btConnected, btDiscoverable,
                    discoverableStartTime, needsFullRedraw, sspEnabled,
                    afterStop, attached, cdFresh >>
    /\ UNCHANGED << dispVars, touchVars >>

\* loop(): one pass of the send loop: the remainder is offered to
\* SerialBT.write, which takes some, all or none of it (then delay(1)); when
\* the loop ends a short total is logged, the locals go and the tick ends
TxStep ==
    /\ pc = "tx"
    /\ IF SendMore(totalWritten, bytesRead, btConnected)
       THEN \E w \in 0..Len(Offered(totalWritten, bytesRead)) :
               /\ w > 0 => link = "open"
               /\ w = 0 => zeroWrites < MaxZeroWrites \/ link # "open"
               /\ IF w > 0
                  THEN /\ totalWritten' = totalWritten + w
                       /\ sent' = sent \o SubSeq(Offered(totalWritten, bytesRead), 1, w)
                       /\ UNCHANGED << clock, zeroWrites >>
                  ELSE /\ clock' = clock + 1
                       /\ zeroWrites' = IF zeroWrites < MaxZeroWrites
                                        THEN zeroWrites + 1 ELSE zeroWrites
                       /\ UNCHANGED << totalWritten, sent >>
               /\ pc' = "tx"
               /\ UNCHANGED << warning, bytesRead >>
       ELSE /\ warning' = IF totalWritten # bytesRead
                          THEN << totalWritten, bytesRead >> ELSE << >>
            /\ pc' = "ud_state"
            /\ bytesRead' = 0 /\ totalWritten' = 0
            /\ sent' = << >>
            /\ UNCHANGED << clock, zeroWrites >>
    /\ UNCHANGED << idleClose, boot, changed, cb, link, ticks, started, btConnected, btDiscoverable,
                    discoverableStartTime, needsFullRedraw,
                    sspEnabled, afterStop, attached, cdFresh >>
    /\ UNCHANGED << dispVars, audioVars, touchVars >>

(* ---------------------------- btCallback ------------------------------ *)

\* the callback is registered and the loop task is alive
Listening == pc \notin { "setup", "halted", "panic" }

\* ESP_SPP_SRV_OPEN_EVT: a peer attaches; btCallback sets btConnected
PeerAttach ==
    /\ Listening /\ cb = "none" /\ link = "none"
    /\ link' = "open"
    /\ btConnected' = TRUE
    /\ afterStop' = FALSE
    /\ attached' = TRUE
    /\ changed' = (changed \/ ~btConnected)
    /\ cb' = "opened"
    /\ UNCHANGED << idleClose, boot, pc, clock, ticks, started, btDiscoverable,
                    discoverableStartTime, needsFullRedraw, sspEnabled, cdFresh >>
    /\ UNCHANGED << dispVars, audioVars, txVars, touchVars >>

\* ESP_SPP_CLOSE_EVT: the peer detaches, or the close that follows
\* SerialBT.disconnect() is reported; btCallback clears btConnected
PeerDetach ==
    /\ Listening /\ cb = "none" /\ link \in { "open", "closing" }
    /\ link' = "none"
    /\ btConnected' = FALSE
    /\ changed' = (changed \/ btConnected)
    /\ idleClose' = (~btConnected /\ ~btDiscoverable)
    /\ cb' = "closed"
    /\ UNCHANGED << boot, pc, clock, ticks, started, btDiscoverable,
                    discoverableStartTime, needsFullRedraw, sspEnabled,
                    afterStop, attached, cdFresh >>
    /\ UNCHANGED << dispVars, audioVars, txVars, touchVars >>

\* btCallback: needsFullRedraw is set and the callback returns
CallbackEnd ==
    /\ cb # "none"
    /\ needsFullRedraw' = TRUE
    /\ idleClose' = FALSE
    /\ cb' = "none"
    /\ UNCHANGED << boot, changed, pc, link, clock, ticks, started, btConnected,
                    btDiscoverable, discoverableStartTime, sspEnabled,
                    afterStop, attached, cdFresh >>
    /\ UNCHANGED << dispVars, audioVars, txVars, touchVars >>

(* --------------------------- specification ---------------------------- *)

\* the steps of the loop task that need nothing from outside
LoopStep ==
    \/ UdState \/ UdCheck \/ UdDraw
    \/ TouchPoll \/ ConnectDo \/ StopCheck \/ StopDo
    \/ Timeout \/ StreamCheck \/ TxStep

Next ==
    \/ Setup
    \/ UdState \/ UdCheck \/ UdDraw
    \/ TouchPoll \/ ConnectDo \/ StopCheck \/ StopDo
    \/ Timeout \/ StreamCheck \/ I2sRead \/ TxStep
    \/ PeerAttach \/ PeerDetach \/ CallbackEnd

Spec == Init /\ [][Next]_vars

\* the loop task is always scheduled again; the capture driver and the peer
\* are not obliged to do anything
LiveSpec == Spec /\ WF_vars(LoopStep)

TypeOK ==
    /\ pc \in { "setup", "halted", "panic", "ud_state", "ud_check", "ud_draw",
                "touch", "connect_do", "stop_check", "stop_do", "timeout",
                "stream", "i2s", "tx", "level" }
    /\ cb \in { "none", "opened", "closed" }
    /\ link \in { "none", "open", "closing" }
    /\ clock \in Nat
    /\ ticks \in 0..MaxTicks
    /\ btConnected \in BOOLEAN /\ btDiscoverable \in BOOLEAN
    /\ needsFullRedraw \in BOOLEAN
    /\ lastDisplayState \in -1..2 /\ currentState \in 0..2
    /\ audioLevel \in 0..100 /\ lastAudioLevel \in -1..100
    /\ totalWritten \in 0..bytesRead
    /\ bytesRead \in 0..(IF pc \in { "level", "panic" } /\ ~started
                         THEN MaxLevelBytes ELSE MaxBlock)

(* ---------------- calculateAudioLevel on its own ---------------------- *)

\* 16-bit samples: silence, two moderate values, the most negative value
LevelSamples == { 0, 600, 1200, -32768 }

LevelBlocks(n) == [1..n -> LevelSamples]

\* the globals as they are initialised; the task is about to call
\* calculateAudioLevel
LevelInit ==
    /\ pc = "level"
    /\ cb = "none"
    /\ link = "none"
    /\ clock = 0
    /\ ticks = 0
    /\ started = FALSE
    /\ btConnected = FALSE
    /\ btDiscoverable = FALSE
    /\ discoverableStartTime = 0
    /\ needsFullRedraw = TRUE
    /\ lastDisplayState = -1
    /\ currentState = 0
    /\ lastAudioLevel = -1
    /\ lastRemainingTime = 999
    /\ lastUpdate = 0
    /\ pos = NoTouch
    /\ lastTouchState = FALSE
    /\ sspEnabled = FALSE
    /\ audioLevel = 0
    /\ lastLevel = 0
    /\ lastAudioUpdate = 0
    /\ bytesRead = 0
    /\ totalWritten = 0
    /\ sent = << >>
    /\ zeroWrites = 0
    /\ warning = << >>
    /\ pressEvents = 0
    /\ afterStop = FALSE
    /\ attached = FALSE
    /\ cdFresh = FALSE
    /\ changed = TRUE
    /\ boot = << 0, 0, 0, FALSE >>
    /\ idleClose = FALSE

\* calculateAudioLevel(buffer, length) with length = n > 0: sampleCount is
\* n / 2; with no whole sample the average divides by zero and the firmware
\* stops with an exception; otherwise the level is mapped, constrained and
\* smoothed.  bytesRead keeps the length of the call.
LevelCall ==
    /\ pc = "level"
    /\ \E n \in 1..MaxLevelBytes :
          /\ bytesRead' = n
          /\ IF n \div 2 = 0
             THEN pc' = "panic" /\ UNCHANGED << audioLevel, lastLevel >>
             ELSE /\ pc' = "level"
                  /\ \E samples \in LevelBlocks(n \div 2) :
                        /\ audioLevel' = Smooth(MappedLevel(samples), lastLevel)
                        /\ lastLevel' = audioLevel'
    /\ UNCHANGED << idleClose, boot, cb, link, clock, ticks, started, btConnected,
                    btDiscoverable, discoverableStartTime, needsFullRedraw,
                    sspEnabled, afterStop, attached, cdFresh, changed,
                    lastAudioUpdate, totalWritten, sent, zeroWrites, warning >>
    /\ UNCHANGED << dispVars, touchVars >>

LevelNext == LevelCall

LevelSpec == LevelInit /\ [][LevelNext]_vars

(* ------------------------------ claims -------------------------------- *)

\* the three connection states, as updateDisplay tells them apart
IsIdle == ~btConnected /\ ~btDiscoverable
IsDiscoverable == ~btConnected /\ btDiscoverable
IsStreaming == btConnected

\* Discoverable, and no peer attached since the connect press
QuietDiscoverable == IsDiscoverable /\ ~attached

\* a step of the loop task that evaluates the timeout
TimeoutEvaluated == pc = "timeout" /\ pc' = "stream"

\* a timeout evaluation is still ahead within the ticks explored
TimeoutAhead ==
    \/ pc \in { "touch", "connect_do", "stop_check", "timeout" }
    \/ pc \in { "stream", "ud_state", "ud_check", "ud_draw" } /\ ticks < MaxTicks

\* C1: while Discoverable with no peer attached, the state stays Discoverable
\* as long as at most 60000 ms have elapsed since the entry timestamp: it
\* becomes Idle only in a timeout evaluation that sees more than 60000 ms,
\* and such an evaluation always makes it Idle; every idle wait lets at least
\* 100 ms pass, and once more than 60000 ms have elapsed the fair loop
\* reaches Idle (or a peer attaches).
C1_DiscoverableTimeout ==
    /\ [][ QuietDiscoverable =>
             /\ IsIdle' =>
                   /\ TimeoutEvaluated
                   /\ Elapsed(clock, discoverableStartTime) > DISCOVERABLE_DURATION
             /\ (TimeoutEvaluated
                   /\ Elapsed(clock, discoverableStartTime) > DISCOVERABLE_DURATION)
                => IsIdle'
             /\ Elapsed(clock, discoverableStartTime) <= DISCOVERABLE_DURATION
                => (IsDiscoverable' \/ (IsStreaming' /\ attached'))
             /\ (pc = "stream" /\ pc' = "ud_state") => clock' >= clock + 100
         ]_vars
    /\ (QuietDiscoverable /\ TimeoutAhead
          /\ Elapsed(clock, discoverableStartTime) > DISCOVERABLE_DURATION)
       ~> (IsIdle \/ IsStreaming)

\* C1 witness: the window ran out with no peer and the evaluation made the
\* state Idle
C1_Witness ==
    /\ pc = "stream" /\ IsIdle /\ ~attached /\ sspEnabled /\ needsFullRedraw
    /\ Elapsed(clock, discoverableStartTime) > DISCOVERABLE_DURATION

\* C2: a peer-detach event delivered while Streaming leaves the state Idle.
C2_LinkLossToIdle ==
    [][ (IsStreaming /\ cb = "none" /\ cb' = "closed") => IsIdle' ]_vars

\* C3: an accepted stop press tears the link down and leaves the state Idle
\* in the same tick, and from then until a peer attaches again the loop is
\* at no audio read and at no link write.
C3_StopTearsDown ==
    /\ [][ (pc = "stop_do" /\ pc' # "stop_do") =>
             /\ link' # "open"
             /\ IsIdle'
             /\ afterStop'
             /\ ticks' = ticks
         ]_vars
    /\ [](afterStop => (pc \notin { "i2s", "tx" } /\ ~btConnected /\ link # "open"))

\* C3 witness: the stop press closed an open link and the tick went on
\* without streaming
C3_Witness ==
    afterStop /\ link = "closing" /\ pc = "ud_state" /\ IsIdle

\* C4: an accepted connect press leaves the machine Discoverable, with the
\* entry timestamp set to the current time, pairing enabled and the
\* full-redraw flag set.
C4_ConnectEntersDiscoverable ==
    [][ (pc = "connect_do" /\ pc' # "connect_do") =>
          /\ IsDiscoverable'
          /\ discoverableStartTime' = clock
          /\ sspEnabled'
          /\ needsFullRedraw'
      ]_vars

\* C5: the first countdown value drawn after a connect press is 60.
C5_CountdownStartsAt60 ==
    [][ (cdFresh /\ ~cdFresh') => lastRemainingTime' = 60 ]_vars

\* C6: the state becomes Streaming only by a peer-attach event delivered
\* while Discoverable.
C6_StreamingOnlyFromDiscoverable ==
    [][ (~IsStreaming /\ IsStreaming') => (IsDiscoverable /\ cb' = "opened") ]_vars

\* the offsets 0 .. n-1 in order
Prefix(n) == [i \in 1..n |-> i - 1]

\* C7: the send loop offers exactly the unsent remainder: what the transport
\* has accepted is always the block's first totalWritten bytes in order, a
\* pass in which it accepts something moves totalWritten forward by that
\* chunk, and a loop that ends on a connected link has sent all N bytes.
C7_FullDelivery ==
    /\ [](pc = "tx" => (totalWritten <= bytesRead /\ sent = Prefix(totalWritten)))
    /\ [][ (pc = "tx" /\ pc' = "tx" /\ sent' # sent) =>
             /\ totalWritten' > totalWritten
             /\ sent' = sent \o [i \in 1..(totalWritten' - totalWritten)
                                    |-> totalWritten + i - 1]
         ]_vars
    /\ [][ (pc = "tx" /\ pc' = "ud_state" /\ btConnected) =>
             /\ totalWritten = bytesRead
             /\ sent = Prefix(bytesRead)
             /\ warning' = << >>
         ]_vars

\* C7 witness: a block of several bytes has gone out completely on a link
\* that is still connected, in a run with a zero-byte answer
C7_Witness ==
    /\ pc = "tx" /\ bytesRead >= 2 /\ totalWritten = bytesRead
    /\ sent = Prefix(bytesRead) /\ zeroWrites > 0 /\ btConnected

\* C8: when the send loop finds the link gone with part of the block
\* unsent, it ends at that check without another write, the short total is
\* logged (total and block size), no flag changes and the tick ends.
C8_PartialOnLinkLoss ==
    [][ (pc = "tx" /\ ~btConnected /\ totalWritten < bytesRead /\ cb' = cb) =>
          /\ pc' = "ud_state"
          /\ warning' = << totalWritten, bytesRead >>
          /\ UNCHANGED << clock, btConnected, btDiscoverable,
                          needsFullRedraw, ticks >>
      ]_vars

\* C8 witness: the peer detached after part of the block and the loop ended
\* with the warning
C8_Witness ==
    /\ pc = "ud_state" /\ ~btConnected /\ warning # << >>
    /\ 0 < warning[1] /\ warning[1] < warning[2]

\* C9: from every state of the running loop the tick is completed and touch
\* is polled again (a crash of the firmware aside).
C9_NoIndefiniteBlocking ==
    (pc \in { "ud_state", "ud_check", "ud_draw", "connect_do", "stop_check",
              "stop_do", "timeout", "stream", "i2s", "tx" }
       /\ started /\ ticks < MaxTicks)
    ~> (pc = "touch" \/ pc = "panic")

\* C10: one press yields at most one button event.
C10_OneEventPerPress == pressEvents <= 1

\* what a button event acts on: the connection flags, the entry timestamp,
\* the full-redraw flag and the link layer
connFrame == << btConnected, btDiscoverable, discoverableStartTime,
                needsFullRedraw, sspEnabled, link >>

\* C11: ignored presses change nothing: the connect test lets pass a press
\* outside the CONNECT region and any press while the state is not Idle, the
\* stop test lets pass a press outside the STOP region and any press while
\* the state is not Streaming; neither then changes the connection flags,
\* the entry timestamp or the full-redraw flag, nor calls enableSSP or
\* disconnect.
C11_IgnoredPresses ==
    /\ [][ (pc = "touch" /\ pc' # "touch" /\ (~InConnect(pos') \/ ~IsIdle)) =>
             (pc' = "stop_check" /\ UNCHANGED connFrame) ]_vars
    /\ [][ (pc = "stop_check" /\ pc' # "stop_check"
               /\ (~InStop(pos) \/ ~IsStreaming)) =>
             (pc' = "timeout" /\ UNCHANGED connFrame) ]_vars

\* C11 witness: a new press made while Streaming went through both tests
\* without a button event; the link is open and pairing was never enabled
C11_Witness ==
    /\ pc = "timeout" /\ lastTouchState /\ pressEvents = 0
    /\ IsStreaming /\ link = "open" /\ ~sspEnabled

\* updateDisplay performs its full redraw in this step
FullRedraw ==
    /\ pc = "ud_check" /\ pc' = "ud_draw"
    /\ (currentState # lastDisplayState \/ needsFullRedraw)

\* C12: a full redraw is performed only when the connection state has
\* changed since the previous full redraw drew it (the first redraw, of the
\* boot into Idle, included as drawing a change).
C12_FullRedrawOncePerTransition ==
    [][ FullRedraw => changed ]_vars

C14_LoudnessSmoothing ==
    /\ [](audioLevel = lastLevel)
    /\ [][ (pc = "level" /\ pc' = "level") =>
             /\ \E mapped \in 0..100 :
                   audioLevel' = (mapped * 7 + audioLevel * 3) \div 10
             /\ Abs(audioLevel' - audioLevel) <= 70
             /\ ~(audioLevel = 0 /\ audioLevel' = 100)
             /\ ~(audioLevel = 100 /\ audioLevel' = 0)
         ]_vars

\* C14 witness: two analyses of the loudest block have taken the level from
\* 0 over 70 to 91
C14_Witness == pc = "level" /\ audioLevel = 91 /\ bytesRead >= 2

\* setup() found the microphone or the Bluetooth stack not initialised
InitFailed ==
    pc # "setup" /\ (boot[1] # 0 \/ boot[2] # 0 \/ boot[3] # 0 \/ ~boot[4])

\* C15: when the microphone configuration or the Bluetooth initialisation
\* fails in setup(), the task halts for ever: no display update and no
\* loop() iteration runs, the state stays Idle, and there is no audio read,
\* no link write, no pairing enable and no callback.
C15_FatalAtInit ==
    /\ [](InitFailed =>
            /\ pc = "halted"
            /\ IsIdle /\ ticks = 0 /\ ~started /\ lastDisplayState = -1
            /\ ~sspEnabled /\ link = "none" /\ cb = "none"
            /\ bytesRead = 0 /\ sent = << >>)
    /\ [][ pc = "halted" => pc' = "halted" ]_vars

\* C15 witness: i2s_set_pin failed and the task is in its endless wait
C15_Witness == pc = "halted" /\ boot = << 0, -1, 0, FALSE >>

\* C16: in every iteration of loop() the display is rendered after the
\* press and the timeout of that iteration have been handled and before
\* its audio stage: the timeout evaluation is followed by the rendering and
\* the rendering by the audio stage.
C16_TickOrdering ==
    [][ (started /\ pc' # pc) =>
          /\ pc = "timeout" => pc' = "ud_state"
          /\ pc = "ud_draw" => pc' = "stream"
      ]_vars

\* C17: btDiscoverable and btConnected are never both set.
C17_FlagsExclusive == ~(btDiscoverable /\ btConnected)

\* C18: a close event delivered while Idle changes neither the connection
\* flags nor the entry timestamp nor the full-redraw flag, in either step of
\* its callback.
C18_IdleDetachNoOp ==
    /\ [][ (IsIdle /\ cb = "none" /\ cb' = "closed") =>
             UNCHANGED << btConnected, btDiscoverable, discoverableStartTime,
                          needsFullRedraw >> ]_vars
    /\ [][ (idleClose /\ cb = "closed" /\ cb' = "none") =>
             UNCHANGED needsFullRedraw ]_vars

\* C19: every countdown value drawn is in 0..60 (999 marks that none has
\* been drawn since the full redraw).
C19_CountdownRange ==
    lastRemainingTime = 999 \/ lastRemainingTime \in 0..60

\* the state whose partial drawing updateDisplay is about to execute paints
\* something: its heading after a full redraw, or its animated part
PartialPaints ==
    \/ lastAudioLevel = -1
    \/ (btConnected \/ btDiscoverable) /\ Elapsed(clock, lastUpdate) > 50

\* C20: the partial drawing executed by updateDisplay belongs to the state
\* for which the most recent full redraw was performed.
C20_PartialDrawMatchesRedraw ==
    [][ (pc = "ud_draw" /\ pc' # pc /\ PartialPaints) =>
          StateOf(btConnected, btDiscoverable) = lastDisplayState ]_vars

====
